---- MODULE Spec2Model ----
(***************************************************************************)
(* Model of AbiGenerator (converters/typescript/abi-generator.ts): the     *)
(* generate() pipeline, its three accumulators, the watch observer and     *)
(* the translation of ABI items into declarations.                         *)
(*                                                                         *)
(* Generated text is modelled structurally: a declaration is a record      *)
(* (kind, name, properties / values), the declaration unit is the          *)
(* sequence of declarations in the order the code concatenates them.       *)
(***************************************************************************)
EXTENDS Integers, Sequences, FiniteSets, TLC

\* ------------------------------------------------------------------------
\* Bounds
\* ------------------------------------------------------------------------
MaxRuns == 4
MaxTimers == 3

\* ------------------------------------------------------------------------
\* ABI data (AbiItem, AbiInput, AbiOutput)
\* ------------------------------------------------------------------------
Field(n, t, c) == [name |-> n, type |-> t, components |-> c]

AbiItemOf(t, n, i, o) == [type |-> t, name |-> n, inputs |-> i, outputs |-> o]

\* constructor taking one composite input with an unnamed position
ItemConstructor ==
  AbiItemOf("constructor", "",
            <<Field("", "tuple", <<Field("x", "uint256", <<>>)>>)>>, <<>>)

\* function with an unnamed input, a composite input holding a nested
\* composite, and two outputs, the first unnamed
ItemFoo ==
  AbiItemOf("function", "foo",
            <<Field("", "uint256", <<>>),
              Field("t", "tuple",
                    <<Field("n", "tuple", <<Field("c", "uint256", <<>>)>>),
                      Field("d", "bool", <<>>)>>)>>,
            <<Field("", "uint256", <<>>), Field("r", "bool", <<>>)>>)

\* function without inputs and a single unnamed output
ItemBar ==
  AbiItemOf("function", "bar", <<>>, <<Field("", "bool", <<>>)>>)

ItemEvent ==
  AbiItemOf("event", "Ev", <<Field("", "uint256", <<>>)>>, <<>>)

\* an item variant the traversal ignores
ItemFallback == AbiItemOf("fallback", "", <<>>, <<>>)

\* the ABI arrays the source file is drawn from: empty, single items, an
\* event before and after callable items, the same item twice, an ignored item
SampleAbis ==
  {<<>>,
   <<ItemConstructor>>,
   <<ItemFoo>>,
   <<ItemEvent, ItemBar>>,
   <<ItemFoo, ItemFoo>>,
   <<ItemFallback, ItemEvent, ItemConstructor>>,
   <<ItemBar, ItemFoo, ItemEvent>>}

\* what JSON.parse can return for the ABI source file
ParsedAbis ==
  {[kind |-> "array", items |-> s] : s \in SampleAbis}
    \cup {[kind |-> "object", items |-> <<>>]}

NoAbi == [kind |-> "none", items |-> <<>>]

\* the ABI source file as the file system presents it
AbiFiles ==
  {[state |-> "missing", json |-> NoAbi], [state |-> "malformed", json |-> NoAbi]}
    \cup {[state |-> "json", json |-> a] : a \in ParsedAbis}

Providers == {"web3", "ethers"}

\* ------------------------------------------------------------------------
\* Helpers outside abi-generator.ts (Helpers, TypeScriptHelpers, factories)
\* ------------------------------------------------------------------------
\* Helpers.capitalize: first character uppercased, rest untouched
Capitalize(s) ==
  CASE s = "foo" -> "Foo"
    [] s = "bar" -> "Bar"
    [] s = "token" -> "Token"
    [] OTHER -> s

\* TypeScriptHelpers.getSolidityTsType: unknown tags (the composite tag
\* included) fall back to "any"
GetSolidityTsType(type) ==
  CASE type = "uint256" -> "string"
    [] type = "address" -> "string"
    [] type = "bool" -> "boolean"
    [] OTHER -> "any"

\* TypeScriptHelpers.buildInterface
BuildInterface(name, properties) ==
  [kind |-> "interface", name |-> name, properties |-> properties]

\* TypeScriptHelpers.buildType
BuildType(name, values) ==
  [kind |-> "type", name |-> name, properties |-> values]

\* Web3Factory.buildWeb3Interfaces / EthersFactory.buildEthersInterfaces
BuildProviderInterfaces(provider, abiName) ==
  [kind |-> "preamble", name |-> abiName, properties |-> <<provider>>]

\* Web3Factory / EthersFactory .buildMethodReturnContext
FactoryMethodReturnContext(provider, type, abiItem) ==
  [provider |-> provider, type |-> type]

\* Web3Factory / EthersFactory .buildEventInterfaceProperties: one entry per
\* event item, in order
FactoryEventInterfaceProperties(provider, abiItems) ==
  LET evs == SelectSeq(abiItems, LAMBDA it : it.type = "event")
  IN [k \in 1..Len(evs) |-> [name |-> evs[k].name, type |-> provider]]

\* ------------------------------------------------------------------------
\* Translation of one ABI item (abi-generator.ts, lines 377-526)
\* ------------------------------------------------------------------------
\* the name an input is emitted under (lines 382-386 and 425-429)
InputName(name, i) ==
  IF name = "" THEN "parameter" \o ToString(i) ELSE name

buildInterfacePropertyDocs(abiItem) ==
  [type |-> abiItem.type,
   params |-> [k \in 1..Len(abiItem.inputs) |->
                 [name |-> InputName(abiItem.inputs[k].name, k - 1),
                  type |-> abiItem.inputs[k].type]]]

\* the type a component of a composite input is given (line 463)
ComponentType(component) == GetSolidityTsType(component.type)

\* the declaration buildTupleParametersInterface pushes, and the reference
\* name it returns
buildTupleParametersInterface(name, abiInput) ==
  LET interfaceName == Capitalize(name) \o "Request"
      properties ==
        [k \in 1..Len(abiInput.components) |->
           [name |-> abiInput.components[k].name,
            type |-> ComponentType(abiInput.components[k])]]
  IN [ref |-> interfaceName,
      pushed |-> <<BuildInterface(interfaceName, properties)>>]

RECURSIVE Flatten(_)
Flatten(ss) == IF ss = <<>> THEN <<>> ELSE Head(ss) \o Flatten(Tail(ss))

\* buildParameters: the parameter list, and the declarations pushed while
\* building it, in input order
buildParameters(abiItem) ==
  LET ins == abiItem.inputs
      tup(k) == buildTupleParametersInterface(abiItem.name, ins[k])
  IN [input |-> [k \in 1..Len(ins) |->
                   [name |-> InputName(ins[k].name, k - 1),
                    type |-> IF ins[k].type = "tuple" THEN tup(k).ref
                             ELSE GetSolidityTsType(ins[k].type)]],
      pushed |-> Flatten([k \in 1..Len(ins) |->
                            IF ins[k].type = "tuple" THEN tup(k).pushed
                            ELSE <<>>])]

\* buildMethodReturnContext: throws for an unknown provider
buildMethodReturnContext(provider, type, abiItem) ==
  [threw |-> provider \notin Providers,
   output |-> FactoryMethodReturnContext(provider, type, abiItem)]

\* buildPropertyReturnTypeInterface: the Response declaration is pushed
\* before the return context is built
buildPropertyReturnTypeInterface(provider, abiItem) ==
  LET outs == abiItem.outputs
      interfaceName == Capitalize(abiItem.name) \o "Response"
      ouputProperties ==
        [k \in 1..Len(outs) |->
           [name |-> outs[k].name,
            type |-> GetSolidityTsType(outs[k].type)]]
      type == IF Len(outs) = 0 THEN "void"
              ELSE IF Len(outs) = 1 THEN GetSolidityTsType(outs[1].type)
              ELSE interfaceName
      ctx == buildMethodReturnContext(provider, type, abiItem)
  IN [pushed |-> IF Len(outs) > 1
                 THEN <<BuildInterface(interfaceName, ouputProperties)>>
                 ELSE <<>>,
      threw |-> ctx.threw,
      output |-> ctx.output]

\* ------------------------------------------------------------------------
\* The pass over the ABI and the assembly (lines 183-206, 256-346)
\* ------------------------------------------------------------------------
\* getAbiName with the context name "token"
getAbiName == Capitalize("token")

\* one iteration of the loop of buildAbiInterface; st carries the property
\* list built so far, the three accumulators and whether an error was thrown
AbiInterfaceStep(provider, st, abiItem) ==
  IF abiItem.type \in {"constructor", "function"}
  THEN LET callName == IF abiItem.type = "constructor" THEN "new"
                       ELSE abiItem.name
           docs == buildInterfacePropertyDocs(abiItem)
           params == buildParameters(abiItem)
           ret == buildPropertyReturnTypeInterface(provider, abiItem)
       IN [properties |->
             IF ret.threw THEN st.properties
             ELSE Append(st.properties,
                         [docs |-> docs, name |-> callName,
                          parameters |-> params.input,
                          returns |-> ret.output]),
           interfaces |-> st.interfaces \o params.pushed \o ret.pushed,
           events |-> st.events,
           methodNames |-> Append(st.methodNames, callName),
           threw |-> ret.threw]
  ELSE IF abiItem.type = "event"
  THEN [st EXCEPT !.events = Append(st.events, abiItem.name)]
  ELSE st

RECURSIVE AbiInterfaceLoop(_, _, _)
AbiInterfaceLoop(provider, st, abiItems) ==
  IF abiItems = <<>> \/ st.threw THEN st
  ELSE AbiInterfaceLoop(provider,
                        AbiInterfaceStep(provider, st, Head(abiItems)),
                        Tail(abiItems))

\* buildAbiInterface, started on the accumulators as the instance holds them;
\* a parsed value that is not an array has no length and the loop body never
\* runs
buildAbiInterface(provider, abi, interfaces, evs, names) ==
  LET st0 == [properties |-> <<>>, interfaces |-> interfaces, events |-> evs,
              methodNames |-> names, threw |-> FALSE]
      st == AbiInterfaceLoop(provider, st0,
                             IF abi.kind = "array" THEN abi.items ELSE <<>>)
  IN [st EXCEPT !.properties = BuildInterface(getAbiName, st.properties)]

buildEventsType(evs) == BuildType(getAbiName \o "Events", evs)

buildMethodNamesType(names) == BuildType(getAbiName \o "MethodNames", names)

buildEventsInterface(provider, abi) ==
  BuildInterface(getAbiName \o "EventsContext",
                 FactoryEventInterfaceProperties(provider, abi.items))

buildParametersAndReturnTypeInterfaces(interfaces) == interfaces

\* buildFullTypings for a supported provider
buildFullTypings(provider, abi, interfaces, evs, names, abiTypedInterface) ==
  <<BuildProviderInterfaces(provider, getAbiName),
    buildEventsType(evs),
    buildEventsInterface(provider, abi),
    buildMethodNamesType(names)>>
    \o buildParametersAndReturnTypeInterfaces(interfaces)
    \o <<abiTypedInterface>>

\* ------------------------------------------------------------------------
\* State
\* ------------------------------------------------------------------------
VARIABLES
  context,        \* _context: provider, watch flag, formatter options
  parametersAndReturnTypeInterfaces,  \* _parametersAndReturnTypeInterfaces
  events,         \* _events
  methodNames,    \* _methodNames
  pc,             \* position of the current generate() call
  runs,           \* number of generate() calls started so far
  abi,            \* local abi of generate(): the parsed ABI source
  fullTypings,    \* local fullTypings of generate(): the declaration unit
  error,          \* the error the current call threw, "none" if none
  abiChecked,     \* the current call has probed the ABI source file
  formatLog,      \* options of each prettier.format call of the current call
  written,        \* the current call has written the output file
  watchers,       \* number of fs.watch observers registered
  fsWait,         \* closure flag of watchForChanges
  timers          \* pending setTimeout callbacks, oldest first; each entry
                  \* counts the re-runs the observer started since it was set

vars == <<context, parametersAndReturnTypeInterfaces, events, methodNames, pc,
          runs, abi, fullTypings, error, abiChecked, formatLog, written,
          watchers, fsWait, timers>>

accumulators == <<parametersAndReturnTypeInterfaces, events, methodNames>>

watchState == <<watchers, fsWait, timers>>

\* the event loop is free: no generate() call is on the stack
Idle == pc \in {"idle", "done", "failed"}

Init ==
  /\ context \in [provider : Providers \cup {"other"},
                  watch : BOOLEAN,
                  prettierOptions : {"none", "custom"}]
  /\ parametersAndReturnTypeInterfaces = <<>>
  /\ events = <<>>
  /\ methodNames = <<>>
  /\ pc = "idle"
  /\ runs = 0
  /\ abi = NoAbi
  /\ fullTypings = <<>>
  /\ error = "none"
  /\ abiChecked = FALSE
  /\ formatLog = <<>>
  /\ written = FALSE
  /\ watchers = 0
  /\ fsWait = FALSE
  /\ timers = <<>>

\* ------------------------------------------------------------------------
\* generate() (lines 31-78)
\* ------------------------------------------------------------------------
\* entry of generate(): fresh locals
EnterGenerate ==
  /\ pc' = "validating"
  /\ runs' = runs + 1
  /\ abi' = NoAbi
  /\ fullTypings' = <<>>
  /\ error' = "none"
  /\ abiChecked' = FALSE
  /\ formatLog' = <<>>
  /\ written' = FALSE

Throw(kind) ==
  /\ pc' = "failed"
  /\ error' = kind

\* a caller invokes generate()
Generate ==
  /\ Idle
  /\ runs < MaxRuns
  /\ EnterGenerate
  /\ UNCHANGED <<context, accumulators, watchState>>

\* lines 32-35: the output path must be a directory
Validate ==
  /\ pc = "validating"
  /\ \E isDirectory \in BOOLEAN :
       IF isDirectory
       THEN pc' = "loading" /\ UNCHANGED error
       ELSE Throw("ConfigurationError")
  /\ UNCHANGED <<context, accumulators, runs, abi, fullTypings, abiChecked,
                 formatLog, written, watchState>>

\* getAbiJson (lines 211-228)
getAbiJson ==
  /\ pc = "loading"
  /\ abiChecked' = TRUE
  /\ \E file \in AbiFiles :
       IF file.state = "json"
       THEN abi' = file.json /\ pc' = "building" /\ UNCHANGED error
       ELSE Throw("SourceError") /\ UNCHANGED abi
  /\ UNCHANGED <<context, accumulators, runs, fullTypings, formatLog, written,
                 watchState>>

\* line 39: buildAbiInterface, then buildFullTypings
Build ==
  /\ pc = "building"
  /\ LET r == buildAbiInterface(context.provider, abi,
                                parametersAndReturnTypeInterfaces, events,
                                methodNames)
     IN /\ parametersAndReturnTypeInterfaces' = r.interfaces
        /\ events' = r.events
        /\ methodNames' = r.methodNames
        /\ IF r.threw \/ context.provider \notin Providers
           THEN Throw("ConfigurationError") /\ UNCHANGED fullTypings
           ELSE \E factoryThrows \in
                     (IF abi.kind = "array" THEN {FALSE} ELSE BOOLEAN) :
                  IF factoryThrows
                  THEN Throw("TypeError") /\ UNCHANGED fullTypings
                  ELSE /\ fullTypings' =
                            buildFullTypings(context.provider, abi,
                                             r.interfaces, r.events,
                                             r.methodNames, r.properties)
                       /\ pc' = "formatting"
                       /\ UNCHANGED error
  /\ UNCHANGED <<context, runs, abi, abiChecked, formatLog, written,
                 watchState>>

\* getPrettierOptions (lines 156-163)
getPrettierOptions ==
  IF context.prettierOptions # "none" THEN context.prettierOptions
  ELSE "default"

\* Format without the catch block: a rejected call fails the run
FormatNoFallback ==
  /\ pc = "formatting"
  /\ formatLog' = Append(formatLog, getPrettierOptions)
  /\ \E ok \in BOOLEAN :
       IF ok
       THEN pc' = "writing" /\ UNCHANGED error
       ELSE Throw("FormatError")
  /\ UNCHANGED <<context, accumulators, runs, abi, fullTypings, abiChecked,
                 written, watchState>>

\* lines 42-46: prettier.format with the configured options
Format ==
  /\ pc = "formatting"
  /\ formatLog' = Append(formatLog, getPrettierOptions)
  /\ \E ok \in BOOLEAN : pc' = IF ok THEN "writing" ELSE "retrying"
  /\ UNCHANGED <<context, accumulators, runs, abi, fullTypings, error,
                 abiChecked, written, watchState>>

\* lines 47-60: the catch block formats with the default options; the same
\* text with the same options fails again
FormatDefault ==
  /\ pc = "retrying"
  /\ formatLog' = Append(formatLog, "default")
  /\ \E ok \in (IF formatLog = <<"default">> THEN {FALSE} ELSE BOOLEAN) :
       IF ok
       THEN pc' = "writing" /\ UNCHANGED error
       ELSE Throw("FormatError")
  /\ UNCHANGED <<context, accumulators, runs, abi, fullTypings, abiChecked,
                 written, watchState>>

\* clearState (lines 99-103)
clearState ==
  /\ parametersAndReturnTypeInterfaces' = <<>>
  /\ events' = <<>>
  /\ methodNames' = <<>>

\* watchForChanges without line 110: the watch flag stays set
watchForChangesKeepFlag ==
  /\ context' = context
  /\ fsWait' = FALSE
  /\ watchers' = watchers + 1

\* watchForChanges (lines 108-125): the registration
watchForChanges ==
  /\ context' = [context EXCEPT !.watch = FALSE]
  /\ fsWait' = FALSE
  /\ watchers' = watchers + 1

\* lines 62-77: write the file, clear the state, register the observer
Write ==
  /\ pc = "writing"
  /\ \E ok \in BOOLEAN :
       IF ok
       THEN /\ written' = TRUE
            /\ clearState
            /\ IF context.watch
               THEN watchForChanges
               ELSE UNCHANGED <<context, fsWait, watchers>>
            /\ pc' = "done"
            /\ UNCHANGED error
       ELSE /\ Throw("WriteError")
            /\ UNCHANGED <<context, accumulators, written, fsWait, watchers>>
  /\ UNCHANGED <<runs, abi, fullTypings, abiChecked, formatLog, timers>>

\* ------------------------------------------------------------------------
\* The observer (lines 112-124)
\* ------------------------------------------------------------------------
\* the fs.watch callback with a filename: guard, timer, generate(); a call
\* without a filename, or with fsWait set, returns without any effect
Notify ==
  /\ Idle
  /\ watchers > 0
  /\ runs < MaxRuns
  /\ Len(timers) < MaxTimers
  /\ ~fsWait
  /\ timers' = [k \in 1..(Len(timers) + 1) |->
                  IF k <= Len(timers) THEN timers[k] + 1 ELSE 1]
  /\ EnterGenerate
  /\ UNCHANGED <<context, accumulators, watchers, fsWait>>

\* the callback passed to setTimeout (lines 115-117)
TimerFire ==
  /\ Idle
  /\ timers # <<>>
  /\ fsWait' = FALSE
  /\ timers' = Tail(timers)
  /\ UNCHANGED <<context, accumulators, pc, runs, abi, fullTypings, error,
                 abiChecked, formatLog, written, watchers>>

Next ==
  \/ Generate
  \/ Validate
  \/ getAbiJson
  \/ Build
  \/ Format
  \/ FormatDefault
  \/ Write
  \/ Notify
  \/ TimerFire

Spec == Init /\ [][Next]_vars

\* ------------------------------------------------------------------------
\* Properties
\* ------------------------------------------------------------------------
IsCallable(abiItem) == abiItem.type \in {"constructor", "function"}

Callables == SelectSeq(abi.items, IsCallable)

ParameterN(i) == "parameter" \o ToString(i)

\* the pass is over and the declaration unit is built
Built == pc = "formatting"

MainInterface == fullTypings[Len(fullTypings)]

\* C1: whenever a run is about to start its pass over the ABI items, the
\* three accumulators are empty.
C1_AccumulatorsEmptyAtPassStart ==
  pc = "building" =>
    /\ parametersAndReturnTypeInterfaces = <<>>
    /\ events = <<>>
    /\ methodNames = <<>>

\* C2: a run whose ABI source parsed to a non-array value never gets past
\* Building, and it fails with a source-format error.
C2_NonArrayAbortsWithSourceError ==
  abi.kind = "object" =>
    /\ pc \notin {"formatting", "retrying", "writing", "done"}
    /\ ~written
    /\ (pc = "failed" => error = "SourceError")

\* C3: with an unsupported provider a run never leaves Validating: the ABI
\* source file is never probed and the failure is a configuration error.
C3_UnknownProviderFailsInValidating ==
  context.provider \notin Providers =>
    /\ pc \in {"idle", "validating", "failed"}
    /\ ~abiChecked
    /\ (pc = "failed" => error = "ConfigurationError")

\* C4: while a debounce timer is pending, the observer has started exactly
\* one re-run since that timer was set.
C4_BurstTriggersOneRerun ==
  \A k \in 1..Len(timers) : timers[k] = 1

\* C5: the observer is registered exactly once: a registration takes the
\* number of observers from 0 to 1, happens with the watch flag set and
\* clears it; a successful run with the flag set registers; nothing else
\* changes the flag.
C5_ObserverRegisteredOnce ==
  [][/\ (watchers' # watchers =>
           /\ watchers = 0
           /\ watchers' = 1
           /\ context.watch
           /\ ~context'.watch
           /\ pc' = "done")
     /\ (context.watch /\ pc = "writing" /\ pc' = "done" => watchers' = 1)
     /\ (context'.watch # context.watch => watchers' # watchers)]_vars

\* a successful re-run started by the observer, after the registration
C5_Witness ==
  /\ watchers = 1
  /\ ~context.watch
  /\ timers # <<>>
  /\ pc = "done"

\* C6: every unnamed input of a callable item is emitted as "parameter" +
\* position in the parameter list and in the documentation, and every
\* unnamed output in the fields of the item's Response interface.
C6_UnnamedEmittedAsParameterN ==
  Built =>
    \A m \in 1..Len(Callables) :
      LET it == Callables[m]
          p == MainInterface.properties[m]
      IN /\ \A k \in 1..Len(it.inputs) :
              it.inputs[k].name = "" =>
                /\ p.parameters[k].name = ParameterN(k - 1)
                /\ p.docs.params[k].name = ParameterN(k - 1)
         /\ \A d \in 1..Len(parametersAndReturnTypeInterfaces) :
              parametersAndReturnTypeInterfaces[d].name
                  = Capitalize(it.name) \o "Response" =>
                \A k \in 1..Len(it.outputs) :
                  it.outputs[k].name = "" =>
                    parametersAndReturnTypeInterfaces[d].properties[k].name
                      = ParameterN(k - 1)

\* name and field types of a declaration
Shape(decl) ==
  [name |-> decl.name,
   types |-> [k \in 1..Len(decl.properties) |-> decl.properties[k].type]]

\* the entries one callable item is to register: a Request per composite
\* input, in input order, then a Response when it has two or more outputs
ExpectedAuxOf(it) ==
  Flatten([k \in 1..Len(it.inputs) |->
             IF it.inputs[k].type = "tuple"
             THEN <<[name |-> Capitalize(it.name) \o "Request",
                     types |-> [c \in 1..Len(it.inputs[k].components) |->
                                  GetSolidityTsType(
                                    it.inputs[k].components[c].type)]]>>
             ELSE <<>>])
    \o (IF Len(it.outputs) >= 2
        THEN <<[name |-> Capitalize(it.name) \o "Response",
                types |-> [k \in 1..Len(it.outputs) |->
                             GetSolidityTsType(it.outputs[k].type)]]>>
        ELSE <<>>)

ExpectedAux == Flatten([m \in 1..Len(Callables) |-> ExpectedAuxOf(Callables[m])])

\* C7: after the pass the auxiliary-interface accumulator holds exactly the
\* Request and Response entries of the ABI's callable items, in traversal
\* order.
C7_AuxiliaryInterfacesExact ==
  Built =>
    [d \in 1..Len(parametersAndReturnTypeInterfaces) |->
       Shape(parametersAndReturnTypeInterfaces[d])] = ExpectedAux

EventNamesSeen ==
  LET evs == SelectSeq(abi.items, LAMBDA it : it.type = "event")
  IN [k \in 1..Len(evs) |-> evs[k].name]

MethodNamesSeen ==
  [m \in 1..Len(Callables) |->
     IF Callables[m].type = "constructor" THEN "new" ELSE Callables[m].name]

\* C8: the declaration unit is preamble, event-name type, event-context
\* interface, method-name type, the accumulated auxiliary interfaces, main
\* interface, in this order, and the two name types list the event names
\* and the method names of this pass.
C8_DeclarationUnitOrder ==
  Built =>
    LET n == Len(fullTypings)
    IN /\ n >= 5
       /\ fullTypings[1].kind = "preamble"
       /\ fullTypings[1].properties = <<context.provider>>
       /\ fullTypings[2].kind = "type"
       /\ fullTypings[2].properties = EventNamesSeen
       /\ fullTypings[3].kind = "interface"
       /\ Len(fullTypings[3].properties) = Len(EventNamesSeen)
       /\ fullTypings[4].kind = "type"
       /\ fullTypings[4].properties = MethodNamesSeen
       /\ SubSeq(fullTypings, 5, n - 1) = parametersAndReturnTypeInterfaces
       /\ MainInterface.name = getAbiName
       /\ Len(MainInterface.properties) = Len(Callables)

\* C9: a composite component of a composite input has a registered
\* declaration of its own with its sub-fields, and the field of the outer
\* declaration names it.
C9_NestedCompositeExpanded ==
  Built =>
    \A m \in 1..Len(Callables) :
      \A i \in 1..Len(Callables[m].inputs) :
        LET in == Callables[m].inputs[i]
        IN in.type = "tuple" =>
             \A k \in 1..Len(in.components) :
               in.components[k].type = "tuple" =>
                 \E d, e \in 1..Len(parametersAndReturnTypeInterfaces) :
                   LET outer == parametersAndReturnTypeInterfaces[d]
                       inner == parametersAndReturnTypeInterfaces[e]
                   IN /\ outer.name = Capitalize(Callables[m].name) \o "Request"
                      /\ Len(outer.properties) = Len(in.components)
                      /\ outer.properties[k].type = inner.name
                      /\ [c \in 1..Len(inner.properties) |->
                            inner.properties[c].name]
                           = [c \in 1..Len(in.components[k].components) |->
                                in.components[k].components[c].name]

\* C10: a run calls the formatter at most twice, the second time with the
\* default options; one rejected call never fails the run; a run that fails
\* in the formatter has made both calls and written nothing; a run that is
\* done has written the file and left the accumulators empty.
C10_FormatterRetriedOnce ==
  /\ Len(formatLog) <= 2
  /\ (Len(formatLog) >= 1 => formatLog[1] = getPrettierOptions)
  /\ (Len(formatLog) = 2 => formatLog[2] = "default")
  /\ (pc = "retrying" => Len(formatLog) = 1 /\ error = "none")
  /\ (pc = "writing" => Len(formatLog) \in {1, 2} /\ error = "none")
  /\ (error = "FormatError" =>
        pc = "failed" /\ Len(formatLog) = 2 /\ ~written)
  /\ (pc = "failed" /\ Len(formatLog) = 1 => error = "WriteError")
  /\ (pc = "done" =>
        /\ written
        /\ parametersAndReturnTypeInterfaces = <<>>
        /\ events = <<>>
        /\ methodNames = <<>>)

\* the configured options were rejected, the retry went through and the run
\* is done
C10_Witness ==
  /\ pc = "done"
  /\ formatLog = <<"custom", "default">>
  /\ written

====
